---- MODULE Spec2Model ----
(***************************************************************************)
(* RateLimiter of src/src/Kronos.py (lines 300-357): a sliding-window      *)
(* limiter whose ledger of timestamps is guarded by one lock.              *)
(*                                                                         *)
(* Time is counted in integer ticks; time_period is a number of ticks.     *)
(* datetime.now() reads the variable clock, time.sleep(w) returns at the   *)
(* first step taken once clock has advanced by at least w.                 *)
(***************************************************************************)
EXTENDS Integers, Sequences, FiniteSets, TLC

\* ------------------------------------------------------------------ bounds
NumCallers == 2      \* threads / processes sharing the limiter
MaxCalls == 4        \* acquire() invocations in one behaviour
MaxTime == 2         \* last tick at which the clock advances on its own
MaxLimit == 2        \* largest limit constructed
MaxPeriod == 2       \* largest time_period constructed (ticks)
FairCalls == 2       \* acquire() invocations in a fairly scheduled behaviour
FairTime == 1        \* MaxTime of a fairly scheduled behaviour

Callers == 1..NumCallers
None == 0            \* the lock's value when nobody holds it

VARIABLES
    limit,                \* self._limit
    time_period,          \* self._time_period
    multiprocessing_mode, \* which storage backs the ledger
    constructed,          \* __init__ returned an object (it did not raise)
    timestamps,           \* self._timestamps, the ledger
    lock,                 \* self._lock: None or the caller holding it
    info_calls,           \* number of logger.info calls made
    debug_calls,          \* number of logger.debug calls made
    clock,                \* the current instant
    pc,                   \* each caller's position in acquire()
    now,                  \* each caller's local now
    wait_time,            \* each caller's local wait_time (0: none computed)
    wake,                 \* instant at which a sleeping caller's sleep ends
    result,               \* what the caller's last acquire() returned
    calls,                \* acquire() invocations so far
    pre_prune,            \* history: ledger the call found (before pruning)
    post_prune,           \* history: ledger right after the call's prune
    slept,                \* history: the call went through time.sleep
    debug_seen,           \* history: debug_calls when the call took the lock
    sleeps,               \* history: number of time.sleep calls made
    admitted,             \* history: return instants of acquire(), in order
    recorded              \* history: every value appended to the ledger

vars == <<limit, time_period, multiprocessing_mode, constructed, timestamps,
          lock, info_calls, debug_calls, clock, pc, now, wait_time, wake,
          result, calls, pre_prune, post_prune, slept, debug_seen, sleeps,
          admitted, recorded>>

config == <<limit, time_period, multiprocessing_mode, constructed, info_calls>>
history == <<pre_prune, post_prune, slept, debug_seen, sleeps, admitted,
            recorded>>

\* ------------------------------------------------------- pure computations
\* the index taken first by sorted(expired_indices, reverse=True)
MaxMut(S) == CHOOSE x \in S : \A y \in S : x <= y
Max(S) == CHOOSE x \in S : \A y \in S : y <= x

\* list.pop(i) on a 1-based sequence
Pop(s, i) == SubSeq(s, 1, i - 1) \o SubSeq(s, i + 1, Len(s))

\* the test of lines 335 and 340: now - ts >= timedelta(seconds=time_period)
ExpiredMut(ts, n, period) == n - ts > period
Expired(ts, n, period) == n - ts >= period

\* line 335: [ts for ts in self._timestamps if now - ts < timedelta(...)]
PruneList(s, n, period) ==
    LET Keep(ts) == ~Expired(ts, n, period) IN SelectSeq(s, Keep)

\* lines 338-341: indices of the expired entries
ExpiredIndices(s, n, period) == {i \in DOMAIN s : Expired(s[i], n, period)}

\* lines 344-345: for i in sorted(expired_indices, reverse=True): pop(i)
RECURSIVE PopDescending(_, _)
PopDescending(s, idx) ==
    IF idx = {} THEN s
    ELSE LET i == Max(idx) IN PopDescending(Pop(s, i), idx \ {i})

PruneManager(s, n, period) == PopDescending(s, ExpiredIndices(s, n, period))

\* lines 333-345: the branch taken depends on the type of the ledger
Pruned(s, n, period, mp) ==
    IF mp THEN PruneManager(s, n, period) ELSE PruneList(s, n, period)

\* line 348 (and 349): the ledger is full, and not empty
LimitReachedMut(s, lim) == Len(s) + 1 >= lim /\ Len(s) > 0
LimitReached(s, lim) == Len(s) >= lim /\ Len(s) > 0

\* lines 350-351: (oldest + timedelta(seconds=time_period) - now)
WaitTimeMut(s, n, period) == s[1] + period - n - 1
WaitTime(s, n, period) == s[1] + period - n

\* line 330: the lock can be taken
LockFreeMut == TRUE
LockFree == lock = None

\* line 330, leaving the with block: the lock's value after release
ReleasedMut(c) == c
Released(c) == None

\* line 353: self._logger.debug(...), one more debug call
LoggedMut(d) == d
Logged(d) == d + 1

\* line 356: self._timestamps.append(now)
AppendedClockMut(s, n, w) == Append(s, clock)
AppendedFrontMut(s, n, w) == <<n>> \o s
AppendedMut(s, n, w) == IF w > 0 THEN s ELSE Append(s, n)
Appended(s, n, w) == Append(s, n)

\* ------------------------------------------------------------ construction
\* lines 305-326: __init__ stores its arguments unchecked, allocates the lock
\* and the empty ledger, and logs one info line.
InitWith(Limits, Periods) ==
    /\ limit \in Limits
    /\ time_period \in Periods
    /\ multiprocessing_mode \in BOOLEAN
    /\ constructed = TRUE
    /\ timestamps = <<>>
    /\ lock = None
    /\ info_calls = 1
    /\ debug_calls = 0
    /\ clock = 0
    /\ pc = [c \in Callers |-> "idle"]
    /\ now = [c \in Callers |-> 0]
    /\ wait_time = [c \in Callers |-> 0]
    /\ wake = [c \in Callers |-> 0]
    /\ result = [c \in Callers |-> "none"]
    /\ calls = 0
    /\ pre_prune = [c \in Callers |-> <<>>]
    /\ post_prune = [c \in Callers |-> <<>>]
    /\ slept = [c \in Callers |-> FALSE]
    /\ debug_seen = [c \in Callers |-> 0]
    /\ sleeps = 0
    /\ admitted = <<>>
    /\ recorded = <<>>

Init == InitWith(1..MaxLimit, 1..MaxPeriod)

\* ----------------------------------------------------------------- acquire
\* line 328: a caller invokes acquire() and arrives at the with statement
Call(c, maxCalls) ==
    /\ constructed
    /\ pc[c] = "idle"
    /\ calls < maxCalls
    /\ pc' = [pc EXCEPT ![c] = "acquire"]
    /\ calls' = calls + 1
    /\ result' = [result EXCEPT ![c] = "none"]
    /\ UNCHANGED <<config, timestamps, lock, debug_calls, clock, now,
                   wait_time, wake, history>>

\* line 330: with self._lock
Enter(c) ==
    /\ pc[c] = "acquire"
    /\ LockFree
    /\ lock' = c
    /\ pc' = [pc EXCEPT ![c] = "now"]
    /\ debug_seen' = [debug_seen EXCEPT ![c] = debug_calls]
    /\ UNCHANGED <<config, timestamps, debug_calls, clock, now, wait_time,
                   wake, result, calls, pre_prune, post_prune, slept,
                   sleeps, admitted, recorded>>

\* line 331: now = datetime.now()
CaptureNow(c) ==
    /\ pc[c] = "now"
    /\ now' = [now EXCEPT ![c] = clock]
    /\ pc' = [pc EXCEPT ![c] = "prune"]
    /\ UNCHANGED <<config, timestamps, lock, debug_calls, clock, wait_time,
                   wake, result, calls, history>>

\* lines 333-345: drop the expired entries
Prune(c) ==
    /\ pc[c] = "prune"
    /\ timestamps' = Pruned(timestamps, now[c], time_period,
                            multiprocessing_mode)
    /\ pre_prune' = [pre_prune EXCEPT ![c] = timestamps]
    /\ post_prune' = [post_prune EXCEPT ![c] = timestamps']
    /\ pc' = [pc EXCEPT ![c] = "check"]
    /\ UNCHANGED <<config, lock, debug_calls, clock, now, wait_time, wake,
                   result, calls, slept, debug_seen, sleeps, admitted,
                   recorded>>

\* lines 348-354: the limit check; with a positive wait, log and start to sleep
Check(c) ==
    /\ pc[c] = "check"
    /\ IF /\ LimitReached(timestamps, limit)
          /\ WaitTime(timestamps, now[c], time_period) > 0
       THEN /\ wait_time' = [wait_time EXCEPT
                   ![c] = WaitTime(timestamps, now[c], time_period)]
            /\ debug_calls' = Logged(debug_calls)
            /\ sleeps' = sleeps + 1
            /\ wake' = [wake EXCEPT ![c] = clock + wait_time'[c]]
            /\ slept' = [slept EXCEPT ![c] = TRUE]
            /\ pc' = [pc EXCEPT ![c] = "sleep"]
       ELSE /\ pc' = [pc EXCEPT ![c] = "append"]
            /\ UNCHANGED <<wait_time, debug_calls, wake, slept, sleeps>>
    /\ UNCHANGED <<config, timestamps, lock, clock, now, result, calls,
                   pre_prune, post_prune, debug_seen, admitted, recorded>>

\* a polling loop: after the sleep the call takes the time and checks again
WakeLoopMut(c) ==
    /\ pc[c] = "sleep"
    /\ clock >= wake[c]
    /\ pc' = [pc EXCEPT ![c] = "now"]
    /\ UNCHANGED <<config, timestamps, lock, debug_calls, clock, now,
                   wait_time, wake, result, calls, history>>

\* line 354: time.sleep(wait_time) returns once the time has passed
Wake(c) ==
    /\ pc[c] = "sleep"
    /\ clock >= wake[c]
    /\ pc' = [pc EXCEPT ![c] = "append"]
    /\ UNCHANGED <<config, timestamps, lock, debug_calls, clock, now,
                   wait_time, wake, result, calls, history>>

\* line 356: self._timestamps.append(now)
AppendNow(c) ==
    /\ pc[c] = "append"
    /\ timestamps' = Appended(timestamps, now[c], wait_time[c])
    /\ recorded' = recorded \o SubSeq(timestamps', Len(timestamps) + 1,
                                       Len(timestamps'))
    /\ pc' = [pc EXCEPT ![c] = "return"]
    /\ UNCHANGED <<config, lock, debug_calls, clock, now, wait_time, wake,
                   result, calls, pre_prune, post_prune, slept, debug_seen,
                   sleeps, admitted>>

\* line 357 and the end of the with block: release the lock, return True
Return(c) ==
    /\ pc[c] = "return"
    /\ lock' = Released(c)
    /\ result' = [result EXCEPT ![c] = "True"]
    /\ admitted' = Append(admitted, clock)
    /\ pc' = [pc EXCEPT ![c] = "idle"]
    /\ now' = [now EXCEPT ![c] = 0]
    /\ wait_time' = [wait_time EXCEPT ![c] = 0]
    /\ wake' = [wake EXCEPT ![c] = 0]
    /\ pre_prune' = [pre_prune EXCEPT ![c] = <<>>]
    /\ post_prune' = [post_prune EXCEPT ![c] = <<>>]
    /\ slept' = [slept EXCEPT ![c] = FALSE]
    /\ debug_seen' = [debug_seen EXCEPT ![c] = 0]
    /\ UNCHANGED <<config, timestamps, debug_calls, clock, calls, sleeps,
                   recorded>>

\* a clock whose advance also sweeps the expired entries out of the ledger
TickSweepMut(maxTime) ==
    /\ \/ clock < maxTime
       \/ \E c \in Callers : pc[c] = "sleep" /\ clock < wake[c]
    /\ clock' = clock + 1
    /\ timestamps' = PruneList(timestamps, clock', time_period)
    /\ UNCHANGED <<config, lock, debug_calls, pc, now, wait_time, wake,
                   result, calls, history>>

\* the clock advances: on its own up to maxTime, and for as long as a sleep
\* is still running
Tick(maxTime) ==
    /\ \/ clock < maxTime
       \/ \E c \in Callers : pc[c] = "sleep" /\ clock < wake[c]
    /\ clock' = clock + 1
    /\ UNCHANGED <<config, timestamps, lock, debug_calls, pc, now, wait_time,
                   wake, result, calls, history>>

Next ==
    \/ \E c \in Callers : Call(c, MaxCalls)
    \/ \E c \in Callers : Enter(c)
    \/ \E c \in Callers : CaptureNow(c)
    \/ \E c \in Callers : Prune(c)
    \/ \E c \in Callers : Check(c)
    \/ \E c \in Callers : Wake(c)
    \/ \E c \in Callers : AppendNow(c)
    \/ \E c \in Callers : Return(c)
    \/ Tick(MaxTime)

Spec == Init /\ [][Next]_vars

\* The same program when every statement but the sleep takes no time: the
\* clock stands still while a caller is executing inside the with block.
Busy == {"now", "prune", "check", "append", "return"}

TickPrompt(maxTime) ==
    /\ \A c \in Callers : pc[c] \notin Busy
    /\ Tick(maxTime)

NextPrompt ==
    \/ \E c \in Callers : Call(c, MaxCalls)
    \/ \E c \in Callers : Enter(c)
    \/ \E c \in Callers : CaptureNow(c)
    \/ \E c \in Callers : Prune(c)
    \/ \E c \in Callers : Check(c)
    \/ \E c \in Callers : Wake(c)
    \/ \E c \in Callers : AppendNow(c)
    \/ \E c \in Callers : Return(c)
    \/ TickPrompt(MaxTime)

SpecPrompt == Init /\ [][NextPrompt]_vars

\* Scheduling for the liveness claims: the clock advances, a caller that can
\* take its next step inside acquire() takes it, and the lock is fair (a
\* caller for which the lock is free again and again gets it).  Whether and
\* when a caller invokes acquire() is left to the caller.
NextFair ==
    \/ \E c \in Callers : Call(c, FairCalls)
    \/ \E c \in Callers : Enter(c)
    \/ \E c \in Callers : CaptureNow(c)
    \/ \E c \in Callers : Prune(c)
    \/ \E c \in Callers : Check(c)
    \/ \E c \in Callers : Wake(c)
    \/ \E c \in Callers : AppendNow(c)
    \/ \E c \in Callers : Return(c)
    \/ Tick(FairTime)

Fairness ==
    /\ WF_vars(Tick(FairTime))
    /\ \A c \in Callers :
          /\ SF_vars(Enter(c))
          /\ WF_vars(CaptureNow(c))
          /\ WF_vars(Prune(c))
          /\ WF_vars(Check(c))
          /\ WF_vars(Wake(c))
          /\ WF_vars(AppendNow(c))
          /\ WF_vars(Return(c))

FairSpec == Init /\ [][NextFair]_vars /\ Fairness

\* The worked example: limit 3 and a window of 2 seconds, one tick being a
\* tenth of a second; four calls, the last of them invoked by tick 3.
InitExample == InitWith({3}, {20})

NextExample ==
    \/ \E c \in Callers : Call(c, 4)
    \/ \E c \in Callers : Enter(c)
    \/ \E c \in Callers : CaptureNow(c)
    \/ \E c \in Callers : Prune(c)
    \/ \E c \in Callers : Check(c)
    \/ \E c \in Callers : Wake(c)
    \/ \E c \in Callers : AppendNow(c)
    \/ \E c \in Callers : Return(c)
    \/ TickPrompt(3)

SpecExample == InitExample /\ [][NextExample]_vars

\* any arguments at all, the non-positive ones included
InitAny == InitWith(-1..MaxLimit, -1..MaxPeriod)

SpecAny == InitAny /\ [][Next]_vars

\* a limiter constructed with limit 0 or a negative limit, fairly scheduled
InitNonPositive == InitWith(-1..0, -1..MaxPeriod)

FairSpecNonPositive == InitNonPositive /\ [][NextFair]_vars /\ Fairness

\* ------------------------------------------------------------- vocabulary
\* positions at which the caller is inside the with block
Critical == {"now", "prune", "check", "sleep", "append", "return"}

\* positions after the limit check of the call
Checked == {"sleep", "append", "return"}

Min(S) == CHOOSE x \in S : \A y \in S : x <= y

Range(s) == {s[i] : i \in DOMAIN s}

\* how many entries of s lie in the half-open interval (lo, hi]
CountAfter(s, lo, hi) == Cardinality({i \in DOMAIN s : lo < s[i] /\ s[i] <= hi})

\* how many entries of s lie in the half-open interval [lo, hi)
CountFrom(s, lo, hi) == Cardinality({i \in DOMAIN s : lo <= s[i] /\ s[i] < hi})

\* ------------------------------------------------------------------ claims

\* C1: for every instant t, at most limit acquire() calls return within the
\* trailing window (t - time_period, t].  The count can only change at a
\* return instant, so the windows ending at return instants decide it.
AdmissionBound ==
    \A i \in DOMAIN admitted :
        CountAfter(admitted, admitted[i] - time_period, admitted[i]) <= limit

\* C2: no window of width time_period holds more than limit of the timestamps
\* the calls appended to the ledger (pruned ones included).
RecordedBound ==
    \A i \in DOMAIN recorded :
        CountFrom(recorded, recorded[i], recorded[i] + time_period) <= limit

\* C3: with limit <= 0 or time_period <= 0 construction fails: no limiter
\* object exists and acquire() is never called on one.
ConfigurationRejected ==
    (limit <= 0 \/ time_period <= 0) => (~constructed /\ calls = 0)

\* C4: at most one caller is inside the critical section, the caller inside
\* holds the lock from the capture of now until after the append (the sleep
\* included), and while one caller sleeps every other caller that invoked
\* acquire() waits for the lock without having touched the ledger.
MutualExclusion ==
    /\ Cardinality({c \in Callers : pc[c] \in Critical}) <= 1
    /\ \A c \in Callers : pc[c] \in Critical <=> lock = c
    /\ \A c, d \in Callers :
          (pc[c] = "sleep" /\ d # c /\ pc[d] # "idle") =>
              /\ pc[d] = "acquire"
              /\ timestamps = post_prune[c]

\* C4 witness: one caller sleeps with the lock while another waits for it
SleeperBlocksOthers ==
    \E c, d \in Callers :
        /\ pc[c] = "sleep" /\ lock = c /\ clock > now[c]
        /\ d # c /\ pc[d] = "acquire"

\* C5: a call whose pruned ledger holds fewer than limit entries appends and
\* returns without sleeping and without a debug message; so does a call made
\* when fewer than limit calls returned within the trailing window of its now.
NoUnnecessaryWait ==
    \A c \in Callers :
        /\ (pc[c] \in Checked /\ Len(post_prune[c]) < limit) =>
              /\ pc[c] # "sleep"
              /\ ~slept[c]
              /\ wait_time[c] = 0
              /\ debug_calls = debug_seen[c]
              /\ pc[c] = "return" => Len(timestamps) = Len(post_prune[c]) + 1
        /\ (/\ pc[c] \in Checked
            /\ CountAfter(admitted, now[c] - time_period, now[c]) < limit) =>
              /\ ~slept[c]
              /\ debug_calls = debug_seen[c]

\* C5 witness: the ledger was full, pruning brought it below limit, and the
\* call has appended without a wait
AdmittedAfterPrune ==
    \E c \in Callers :
        /\ pc[c] = "return"
        /\ Len(pre_prune[c]) >= limit
        /\ Len(post_prune[c]) < limit
        /\ ~slept[c]

\* C6: a call whose pruned ledger holds exactly limit entries, the oldest of
\* them t0, sleeps max(0, t0 + time_period - now) before it records its
\* admission, and so is not past the sleep before instant t0 + time_period.
WaitDuration ==
    \A c \in Callers :
        (pc[c] \in Checked /\ Len(post_prune[c]) = limit) =>
            LET t0 == Min(Range(post_prune[c]))
                due == t0 + time_period - now[c]
            IN /\ wait_time[c] = IF due > 0 THEN due ELSE 0
               /\ slept[c] <=> due > 0
               /\ pc[c] = "sleep" =>
                      /\ wake[c] >= t0 + time_period
                      /\ timestamps = post_prune[c]
               /\ pc[c] \in {"append", "return"} => clock >= t0 + time_period

\* C6 witness: a call that found exactly limit entries has slept a positive
\* time and recorded its admission
WaitedFullWindow ==
    \E c \in Callers :
        /\ pc[c] = "return"
        /\ Len(post_prune[c]) = limit
        /\ wait_time[c] > 0
        /\ now[c] > Min(Range(post_prune[c]))

\* the i-th smallest member of a set of indices
Nth(K, i) == CHOOSE k \in K : Cardinality({j \in K : j < k}) = i - 1

\* C7: the prune removes exactly the entries ts with now - ts >= time_period
\* (age equal to time_period included) and keeps the others in their original
\* order; only the kept entries count against limit.
PruneCorrect ==
    \A c \in Callers :
        pc[c] \in {"check"} \cup Checked =>
            LET pre == pre_prune[c]
                post == post_prune[c]
                kept == {i \in DOMAIN pre : now[c] - pre[i] < time_period}
            IN /\ Len(post) = Cardinality(kept)
               /\ \A j \in DOMAIN post : post[j] = pre[Nth(kept, j)]
               /\ pc[c] = "check" => timestamps = post
               /\ slept[c] => Len(post) >= limit

\* C7 witness: the prune met an entry aged exactly time_period, removed it,
\* and kept a younger one
PrunedAtBoundary ==
    \E c \in Callers :
        /\ pc[c] = "check"
        /\ \E i \in DOMAIN pre_prune[c] : now[c] - pre_prune[c][i] = time_period
        /\ Len(post_prune[c]) >= 1
        /\ Len(post_prune[c]) < Len(pre_prune[c])

\* C9: a call that reaches its return has added exactly one entry at the tail
\* of the pruned ledger, whether it waited or not, so the appends made so far
\* are as many as the calls that have passed the append step.
AppendsExactlyOne ==
    /\ \A c \in Callers :
          pc[c] = "return" =>
              /\ Len(timestamps) = Len(post_prune[c]) + 1
              /\ SubSeq(timestamps, 1, Len(post_prune[c])) = post_prune[c]
    /\ Len(recorded) = Len(admitted) + Cardinality({c \in Callers : pc[c] = "return"})

\* C9 witness: a call that waited is about to return with its one entry added
AppendedAfterWait ==
    \E c \in Callers :
        /\ pc[c] = "return"
        /\ slept[c]
        /\ Len(timestamps) = Len(post_prune[c]) + 1
        /\ Len(recorded) >= 2

\* C8: with a fair lock and an advancing clock every acquire() that was
\* invoked returns, and what it returns is True.
AcquireReturns ==
    \A c \in Callers :
        (pc[c] = "acquire") ~> (pc[c] = "idle" /\ result[c] = "True")

\* C8 witness: every invoked call has returned True, one of them after it
\* found the ledger full and slept, another after it waited for the lock
AllReturnedOneWaited ==
    /\ calls >= 2
    /\ Len(admitted) = calls
    /\ debug_calls >= 1
    /\ \A c \in Callers : pc[c] = "idle" /\ result[c] = "True"

\* the first three calls of the example were made at ticks 0, 1 and 2
FirstThree == Len(recorded) >= 3 /\ SubSeq(recorded, 1, 3) = <<0, 1, 2>>

\* the part of the example that is about the first three calls and about
\* what the fourth call finds and how long it sleeps
ExampleUpToSleep ==
    /\ (FirstThree /\ Len(recorded) = 3 /\ Len(admitted) = 3 /\ lock = None) =>
          /\ admitted = <<0, 1, 2>>
          /\ debug_calls = 0
          /\ timestamps = <<0, 1, 2>>
    /\ \A c \in Callers :
          (FirstThree /\ Len(admitted) = 3 /\ now[c] = 3 /\ pc[c] \in Checked) =>
              /\ post_prune[c] = <<0, 1, 2>>
              /\ wait_time[c] = 17
              /\ pc[c] \in {"append", "return"} => clock >= 20

\* C10: with limit 3 and time_period 2 s, calls at t = 0.0, 0.1, 0.2 return
\* at once and leave three entries; a fourth call at t = 0.3 finds three
\* unexpired entries, sleeps 1.7 s, and the timestamp it records is at or
\* after t = 2.0 (tick 20).
ExampleScenario ==
    /\ ExampleUpToSleep
    /\ \A c \in Callers :
          (FirstThree /\ Len(admitted) = 3 /\ now[c] = 3 /\ pc[c] = "return") =>
              /\ Len(recorded) = 4
              /\ recorded[4] >= 20

\* the newest entry of a non-empty ledger
Last(s) == s[Len(s)]

\* C11 as stated: whenever no caller holds the lock, every timestamp in the
\* ledger lies within [now - time_period, now], now being the current instant.
LedgerWithinWindow ==
    lock = None =>
        \A i \in DOMAIN timestamps :
            /\ clock - time_period <= timestamps[i]
            /\ timestamps[i] <= clock

\* C11 as amended: whenever no caller holds the lock, every timestamp in the
\* ledger is at most the current instant and less than time_period older
\* than the newest timestamp in the ledger.
LedgerWithinWindowOfLast ==
    lock = None =>
        \A i \in DOMAIN timestamps :
            /\ Last(timestamps) - time_period < timestamps[i]
            /\ timestamps[i] <= clock

\* C11 witness: the lock is free and the ledger still holds an entry older
\* than the current window next to a newer one
StaleEntryWhileFree ==
    /\ lock = None
    /\ Len(timestamps) >= 2
    /\ timestamps[1] < clock - time_period
    /\ Last(timestamps) > timestamps[1]

\* C12: the timestamp a call appends is the now it captured at the start of
\* its critical section, also when it slept: after a wait of w > 0 the value
\* appended lies w (or, when the sleep overran, more) before the instant at
\* which the call returns.
RecordsCapturedNow ==
    \A c \in Callers :
        pc[c] = "return" =>
            /\ Last(timestamps) = now[c]
            /\ Last(recorded) = now[c]
            /\ slept[c] =>
                  /\ wait_time[c] > 0
                  /\ wake[c] - wait_time[c] >= now[c]
                  /\ clock >= now[c] + wait_time[c]

\* C12 witness: a call that slept w > 0 has appended its pre-sleep now and
\* is returning exactly w later
RecordedBeforeSleep ==
    \E c \in Callers :
        /\ pc[c] = "return"
        /\ slept[c]
        /\ wait_time[c] > 0
        /\ Last(timestamps) = now[c]
        /\ clock = now[c] + wait_time[c]

\* C13: the ledger changes only in steps of the caller that holds the lock:
\* the prune step only removes entries, the append step only adds one at the
\* tail; while the lock is free, and while time merely passes, the ledger
\* stays as it is.
LedgerFrame ==
    [][/\ timestamps' # timestamps =>
             \E c \in Callers :
                 /\ lock = c
                 /\ lock' = c
                 /\ \/ /\ pc[c] = "prune"
                       /\ pc'[c] = "check"
                       /\ Len(timestamps') < Len(timestamps)
                       /\ Range(timestamps') \subseteq Range(timestamps)
                    \/ /\ pc[c] = "append"
                       /\ pc'[c] = "return"
                       /\ Len(timestamps') = Len(timestamps) + 1
                       /\ SubSeq(timestamps', 1, Len(timestamps)) = timestamps
       /\ lock = None => timestamps' = timestamps
       /\ clock' # clock => timestamps' = timestamps]_vars

\* C13 witness: the lock is free, time has passed, and an entry that has
\* expired is still in the ledger
ExpiredEntryKept ==
    /\ lock = None
    /\ \E i \in DOMAIN timestamps : clock - timestamps[i] >= time_period
    /\ \A c \in Callers : pc[c] = "idle"

\* C14: the two storage modes compute the same thing: on the ledger a call
\* finds and the now it captured, filter-and-replace and pop-by-descending-
\* index leave the same entries in the same order, the limit check decides
\* the same on both, and the ledger after the append is the same.
ModesAgree ==
    \A c \in Callers :
        pc[c] \in {"check"} \cup Checked =>
            LET byList == PruneList(pre_prune[c], now[c], time_period)
                byManager == PruneManager(pre_prune[c], now[c], time_period)
            IN /\ byList = byManager
               /\ post_prune[c] = byList
               /\ post_prune[c] = byManager
               /\ LimitReached(byList, limit) <=> LimitReached(byManager, limit)
               /\ LimitReached(byList, limit) =>
                      WaitTime(byList, now[c], time_period)
                          = WaitTime(byManager, now[c], time_period)
               /\ pc[c] = "return" =>
                      /\ timestamps = Append(byList, now[c])
                      /\ timestamps = Append(byManager, now[c])

\* C14 witness: in cross-process mode a prune has popped two expired entries
\* that stood in front of an entry it kept
PoppedTwoKeptOne ==
    \E c \in Callers :
        /\ multiprocessing_mode
        /\ pc[c] = "check"
        /\ Cardinality(ExpiredIndices(pre_prune[c], now[c], time_period)) >= 2
        /\ Len(post_prune[c]) >= 1
        /\ timestamps = post_prune[c]

\* C15: the ledger is ordered oldest-first in every reachable state, so the
\* entry read as oldest, timestamps[0], is the minimum of the pruned ledger,
\* and the prune never removes an entry while keeping a strictly older one
\* in front of it.
LedgerOldestFirst ==
    /\ \A i, j \in DOMAIN timestamps :
          i < j => timestamps[i] <= timestamps[j]
    /\ \A c \in Callers :
          pc[c] \in {"check"} \cup Checked =>
              LET pre == pre_prune[c]
                  post == post_prune[c]
                  gone == {i \in DOMAIN pre : now[c] - pre[i] >= time_period}
              IN /\ post # <<>> => post[1] = Min(Range(post))
                 /\ \A i \in gone : \A j \in DOMAIN pre \ gone :
                        ~(j < i /\ pre[j] < pre[i])
                 /\ \A i \in gone : \A j \in DOMAIN pre : j < i => j \in gone

\* C15 witness: a prune has removed the front of a ledger and the oldest
\* entry it kept is newer than the one removed
FrontPruned ==
    \E c \in Callers :
        /\ pc[c] = "check"
        /\ Len(pre_prune[c]) >= 3
        /\ Len(post_prune[c]) >= 1
        /\ Len(post_prune[c]) < Len(pre_prune[c])
        /\ post_prune[c][1] > pre_prune[c][1]

\* C16: a call sleeps at most once: it starts to sleep only from the limit
\* check, with the wait computed there from the oldest pruned entry and
\* time_period, and once awake it appends and returns; it does not take the
\* time, prune or check again.
SleepsOnce ==
    [][\A c \in Callers :
          /\ (pc'[c] = "sleep" /\ pc[c] # "sleep") =>
                /\ pc[c] = "check"
                /\ ~slept[c]
                /\ wait_time'[c] = post_prune[c][1] + time_period - now[c]
          /\ (pc[c] = "sleep" /\ pc'[c] # "sleep") =>
                /\ pc'[c] = "append"
                /\ now'[c] = now[c]
                /\ wait_time'[c] = wait_time[c]
                /\ timestamps' = timestamps
          /\ (pc[c] = "append" /\ pc'[c] # "append") =>
                /\ pc'[c] = "return"
                /\ now'[c] = now[c]
                /\ Len(timestamps') = Len(timestamps) + 1
          /\ (pc[c] = "return" /\ pc'[c] # "return") => pc'[c] = "idle"]_vars

\* C16 witness: a call has slept once and is returning with the now it took
\* before the sleep
SleptOnceThenAppended ==
    \E c \in Callers :
        /\ pc[c] = "return"
        /\ slept[c]
        /\ sleeps = 1
        /\ now[c] < clock
        /\ calls = 2

\* C17: logger.info is called once, at construction; logger.debug is called
\* once in each acquire() that computes a wait > 0, before the sleep, and
\* in no other call, so the debug calls made are as many as the calls that
\* slept.
LoggerCalls ==
    /\ info_calls = 1
    /\ debug_calls = sleeps
    /\ \A c \in Callers :
          /\ pc[c] \in {"now", "prune", "check"} => debug_calls = debug_seen[c]
          /\ pc[c] \in Checked =>
                /\ debug_calls = debug_seen[c] + (IF slept[c] THEN 1 ELSE 0)
                /\ slept[c] <=> wait_time[c] > 0
          /\ pc[c] \in {"idle", "acquire"} => ~slept[c]

\* C17 witness: two calls have returned, one that slept and one that did
\* not, and exactly one debug line was logged
OneDebugForTwoCalls ==
    /\ lock = None
    /\ Len(admitted) = 2
    /\ sleeps = 1
    /\ debug_calls = 1
    /\ info_calls = 1

\* C18: after the prune of any call the ledger holds at most limit entries;
\* whenever the lock is free it holds at most limit + 1, and a call leaves
\* limit + 1 entries exactly when it waited.
LedgerLength ==
    /\ \A c \in Callers :
          pc[c] \in {"check"} \cup Checked => Len(post_prune[c]) <= limit
    /\ lock = None => Len(timestamps) <= limit + 1
    /\ \A c \in Callers :
          pc[c] = "return" => (Len(timestamps) = limit + 1 <=> slept[c])

\* C18 witness: the lock is free and the ledger holds limit + 1 entries
OneOverLimitWhileFree ==
    /\ lock = None
    /\ Len(timestamps) = limit + 1

\* C19: a call that finds limit or more entries after its prune computes a
\* wait with 0 < wait_time <= time_period, and therefore sleeps.
WaitPositiveBounded ==
    \A c \in Callers :
        (pc[c] \in Checked /\ Len(post_prune[c]) >= limit) =>
            LET w == post_prune[c][1] + time_period - now[c]
            IN /\ 0 < w
               /\ w <= time_period
               /\ slept[c]
               /\ wait_time[c] = w

\* C19 witness: a call sleeps one full window, and the window is longer than
\* a tick
SleepsFullWindow ==
    \E c \in Callers :
        /\ pc[c] = "sleep"
        /\ time_period >= 2
        /\ wait_time[c] = time_period

\* the entries of a ledger that have not expired at instant t
Unexpired(s, t) == {i \in DOMAIN s : t - s[i] < time_period}

\* C20: whenever the lock is free, at most limit entries of the ledger are
\* unexpired at the current instant.
UnexpiredWithinLimit ==
    lock = None => Cardinality(Unexpired(timestamps, clock)) <= limit

\* C20 witness: a call that waited has released the lock; the ledger holds
\* limit + 1 entries, limit of them unexpired
FullAfterWait ==
    /\ lock = None
    /\ Len(timestamps) = limit + 1
    /\ Cardinality(Unexpired(timestamps, clock)) = limit
    /\ sleeps >= 1

\* what a call on a limiter with limit <= 0 does once past the limit check:
\* on an empty pruned ledger no wait, no debug line; on a non-empty one a
\* single wait for the oldest entry, of at most time_period; in both cases
\* one timestamp appended before the return
NonPositiveLimitSteps ==
    limit <= 0 =>
        \A c \in Callers :
            pc[c] \in Checked =>
                /\ post_prune[c] = <<>> =>
                      /\ pc[c] # "sleep"
                      /\ ~slept[c]
                      /\ wait_time[c] = 0
                      /\ debug_calls = debug_seen[c]
                /\ post_prune[c] # <<>> =>
                      /\ slept[c]
                      /\ wait_time[c] = post_prune[c][1] + time_period - now[c]
                      /\ wait_time[c] <= time_period
                      /\ debug_calls = debug_seen[c] + 1
                /\ pc[c] = "return" =>
                      /\ Len(timestamps) = Len(post_prune[c]) + 1
                      /\ Last(timestamps) = now[c]

\* C21: on a limiter constructed with limit <= 0, a call that finds the
\* pruned ledger empty skips the wait, appends a timestamp and returns True;
\* no call is blocked forever by the limit check: every call invoked returns
\* True, a later one after at most one wait for the oldest entry.
NonPositiveLimitAdmits ==
    /\ []NonPositiveLimitSteps
    /\ \A c \in Callers :
          (pc[c] = "acquire") ~> (pc[c] = "idle" /\ result[c] = "True")

\* C21 witness: with limit <= 0 a first call found the ledger empty and
\* returned without a wait, and a later call has returned after one sleep
NonPositiveBothReturned ==
    /\ limit <= 0
    /\ lock = None
    /\ Len(admitted) = 2
    /\ sleeps = 1
    /\ Len(timestamps) = 2
    /\ \E c \in Callers : result[c] = "True"

====
